---------------------------- MODULE Spec2Model ----------------------------
(***************************************************************************)
(* A model of CMAM (src/src/cmam.py): the local registry packages.json,    *)
(* the scripts directory with the installed executables and their staging  *)
(* files, the backup directory, and the commands that change them.         *)
(*                                                                         *)
(* Strings the code takes apart (release tags, versions, backup file       *)
(* names) are sequences of one-character strings, so that strip, replace,  *)
(* startswith and the version regex are computed as the code computes      *)
(* them.  A command is a sequence of steps (pc); every step is one durable *)
(* effect of the code, and the process may be killed between two steps.    *)
(***************************************************************************)
EXTENDS Integers, Sequences, FiniteSets, TLC

\* ------------------------------------------------------------------ bounds

\* Commands started in one behaviour.
MaxOps == 3
\* External terminations of the process in one behaviour.
MaxKills == 1

\* ----------------------------------------------------------------- strings

S_v == <<"v">>
S_uv == <<"_", "v">>
S_bak == <<".", "e", "x", "e", ".", "b", "a", "k">>
S_unknown == <<"u", "n", "k", "n", "o", "w", "n">>
S_100 == <<"1", ".", "0", ".", "0">>
S_200 == <<"2", ".", "0", ".", "0">>
S_200dev == <<"2", ".", "0", ".", "0", "-", "d", "e", "v">>
S_app == <<"a", "p", "p">>
S_appview == <<"a", "p", "p", "_", "v", "i", "e", "w">>
S_cmam == <<"c", "m", "a", "m">>

Digits == {"0", "1", "2", "3", "4", "5", "6", "7", "8", "9"}
Lower == {"a", "b", "c", "d", "e", "f", "g", "h", "i", "j", "k", "l", "m",
          "n", "o", "p", "q", "r", "s", "t", "u", "v", "w", "x", "y", "z"}
Upper == {"A", "B", "C", "D", "E", "F", "G", "H", "I", "J", "K", "L", "M",
          "N", "O", "P", "Q", "R", "S", "T", "U", "V", "W", "X", "Y", "Z"}
AlNum == Digits \cup Lower \cup Upper

DigitVal(c) ==
    CASE c = "0" -> 0 [] c = "1" -> 1 [] c = "2" -> 2 [] c = "3" -> 3
      [] c = "4" -> 4 [] c = "5" -> 5 [] c = "6" -> 6 [] c = "7" -> 7
      [] c = "8" -> 8 [] c = "9" -> 9

UpperSeq == <<"A", "B", "C", "D", "E", "F", "G", "H", "I", "J", "K", "L", "M",
             "N", "O", "P", "Q", "R", "S", "T", "U", "V", "W", "X", "Y", "Z">>
LowerSeq == <<"a", "b", "c", "d", "e", "f", "g", "h", "i", "j", "k", "l", "m",
             "n", "o", "p", "q", "r", "s", "t", "u", "v", "w", "x", "y", "z">>

\* str.lower() on one character.
LowerChar(c) ==
    IF c \in Upper THEN LowerSeq[CHOOSE i \in 1..26 : UpperSeq[i] = c] ELSE c

LowerStr(s) == [i \in 1..Len(s) |-> LowerChar(s[i])]

StartsWith(s, p) == Len(s) >= Len(p) /\ SubSeq(s, 1, Len(p)) = p
EndsWith(s, p) == Len(s) >= Len(p) /\ SubSeq(s, Len(s) - Len(p) + 1, Len(s)) = p

\* s.replace(p, ""): every non-overlapping occurrence of p, left to right.
RECURSIVE RemoveAll(_, _)
RemoveAll(s, p) ==
    IF Len(s) < Len(p) \/ Len(p) = 0 THEN s
    ELSE IF StartsWith(s, p) THEN RemoveAll(SubSeq(s, Len(p) + 1, Len(s)), p)
    ELSE <<s[1]>> \o RemoveAll(Tail(s), p)

\* s.lstrip("v")
RECURSIVE LStripV(_)
LStripV(s) == IF Len(s) > 0 /\ s[1] = "v" THEN LStripV(Tail(s)) ELSE s

\* s.rstrip("v")
RECURSIVE RStripV(_)
RStripV(s) ==
    IF Len(s) > 0 /\ s[Len(s)] = "v" THEN RStripV(SubSeq(s, 1, Len(s) - 1)) ELSE s

\* s.strip("v")
StripV(s) == RStripV(LStripV(s))

\* -------------------------------------------------------- version comparator

Invalid == <<>>

\* The length of the longest prefix of s, from position i on, made of cs.
RECURSIVE RunLen(_, _, _)
RunLen(s, i, cs) ==
    IF i <= Len(s) /\ s[i] \in cs THEN 1 + RunLen(s, i + 1, cs) ELSE 0

\* Only the first digit read.
ToIntFirstDigit(s) == DigitVal(s[1])

RECURSIVE ToInt(_)
ToInt(s) ==
    IF Len(s) = 0 THEN 0
    ELSE 10 * ToInt(SubSeq(s, 1, Len(s) - 1)) + DigitVal(s[Len(s)])

\* pre_map.get(pre.lower(), -1)
PreKey(pre) ==
    LET p == LowerStr(pre) IN
    CASE p = <<"r", "c">> -> 2
      [] p = <<"b", "e", "t", "a">> -> 1
      [] p = <<"a", "l", "p", "h", "a">> -> 0
      [] OTHER -> -1

\* parse_version: v.strip("v"), then re.match (anchored at the start only) of
\* (\d+)\.(\d+)\.(\d+)(?:-([a-zA-Z0-9]+))? ; Invalid stands for the ValueError.
parse_version(str) ==
    LET v == StripV(str)
        n1 == RunLen(v, 1, Digits)
        d1 == n1 + 1
        n2 == RunLen(v, d1 + 1, Digits)
        d2 == d1 + 1 + n2
        n3 == RunLen(v, d2 + 1, Digits)
        e3 == d2 + n3
        np == IF e3 + 1 <= Len(v) /\ v[e3 + 1] = "-"
              THEN RunLen(v, e3 + 2, AlNum) ELSE 0
    IN  IF n1 = 0 \/ d1 > Len(v) \/ v[d1] # "." THEN Invalid
        ELSE IF n2 = 0 \/ d2 > Len(v) \/ v[d2] # "." THEN Invalid
        ELSE IF n3 = 0 THEN Invalid
        ELSE <<ToInt(SubSeq(v, 1, n1)),
               ToInt(SubSeq(v, d1 + 1, d1 + n2)),
               ToInt(SubSeq(v, d2 + 1, d2 + n3)),
               IF np = 0 THEN 3 ELSE PreKey(SubSeq(v, e3 + 2, e3 + 1 + np))>>

\* Python's order on the 4-tuples parse_version returns.
TupleLess(a, b) ==
    \E i \in 1..4 : a[i] < b[i] /\ \A j \in 1..(i - 1) : a[j] = b[j]

\* ------------------------------------------------------------ the file system

Apps == {S_app, S_appview}
\* The names of the executables in the scripts directory.
ExeNames == Apps \cup {S_cmam}

\* File contents.  Absent: no file.  Partial: a file still being written.
Content(k, a, t) == [k |-> k, a |-> a, t |-> t]
Absent == Content("absent", <<>>, <<>>)
Partial == Content("partial", <<>>, <<>>)
\* Bytes that are not the bytes of the release asset asked for.
Corrupt == Content("corrupt", <<>>, <<>>)
\* The asset of release t of app a.
Rel(a, t) == Content("rel", a, t)
Complete(c) == c.k \in {"rel", "corrupt"}

\* "sha256:<hex>" of a content; NoChecksum: the asset carries no digest.
Digest(c) == [alg |-> "sha256", of |-> c]
NoChecksum == [alg |-> "none", of |-> Absent]

\* CMAM_VERSION
CMAM_VERSION == <<"2", ".", "1", ".", "0">>

\* ------------------------------------------------------------------ remote

\* The release tags a repository may answer with.
RemoteTags(a) ==
    IF a = S_cmam THEN {S_v \o CMAM_VERSION, S_v \o <<"2", ".", "2", ".", "0">>}
    ELSE IF a = S_app THEN {S_v \o S_100, S_v \o S_200, S_v \o S_200dev}
    ELSE {S_v \o S_100, S_v \o S_200}

\* What /releases/latest (ver = "") or /releases/tags/v{ver} may return.
ReleaseResponses(a, ver) ==
    {[tag |-> t, hasExe |-> e, hasSum |-> c] :
        t \in IF ver = <<>> THEN RemoteTags(a)
              ELSE {S_v \o ver} \cap RemoteTags(a),
        e \in BOOLEAN, c \in BOOLEAN}

\* The versions a user may ask for.
AskVersions == {<<>>, S_100, S_200}

\* ---------------------------------------------------------------- registry

\* packages.json: the entries in file order, each a name and its version.
RegNames(reg) == {reg[i].name : i \in 1..Len(reg)}
RegHas(reg, a) == a \in RegNames(reg)
RegIdx(reg, a) == CHOOSE i \in 1..Len(reg) : reg[i].name = a
\* data.get(app_name, {}).get("version", "unknown")
RegVer(reg, a) == IF RegHas(reg, a) THEN reg[RegIdx(reg, a)].version ELSE S_unknown
\* data[app_name] = {"version": v}
RegSet(reg, a, v) ==
    IF RegHas(reg, a)
    THEN [reg EXCEPT ![RegIdx(reg, a)] = [name |-> a, version |-> v]]
    ELSE Append(reg, [name |-> a, version |-> v])
\* del data[app_name]
RegDel(reg, a) ==
    LET keep == {i \in 1..Len(reg) : reg[i].name # a}
        F[i \in 0..Len(reg)] ==
            IF i = 0 THEN <<>>
            ELSE IF i \in keep THEN Append(F[i - 1], reg[i]) ELSE F[i - 1]
    IN  F[Len(reg)]

\* ----------------------------------------------------------------- backups

\* os.path.join(CMAM_BACKUPS, f"{app_name}_v{version}.exe.bak")
BackupName(a, v) == a \o S_uv \o v \o S_bak

WriteFile(dir, f, c) == [g \in (DOMAIN dir) \cup {f} |-> IF g = f THEN c ELSE dir[g]]
RemoveFile(dir, f) == [g \in (DOMAIN dir) \ {f} |-> dir[g]]

BackupFiles(dir, a) ==
    {f \in DOMAIN dir : StartsWith(f, a \o S_uv) /\ EndsWith(f, S_bak)}
\* filename.replace(f"{app_name}_v", "").replace(".exe.bak", "")
BackupVersion(f, a) == RemoveAll(RemoveAll(f, a \o S_uv), S_bak)
\* The sort key of get_backups raises ValueError on one of the files.
GetBackupsRaises(dir, a) ==
    \E f \in BackupFiles(dir, a) : parse_version(BackupVersion(f, a)) = Invalid

\* create_backup: copies the executable, if there is one, to the backup file.
create_backup(dir, x, a, v) ==
    IF x[a] # Absent THEN WriteFile(dir, BackupName(a, v), x[a]) ELSE dir

\* ------------------------------------------------------------------- state

VARIABLES
    registry,   \* packages.json: the entries written in it
    regok,      \* packages.json parses as JSON
    exe,        \* scripts/<name>.exe, by name
    tmp,        \* scripts/<name>.exe.tmp, by name
    backups,    \* the backup directory: file name -> content
    pc,         \* the position of the running command
    loc,        \* the running command's arguments and local variables
    outcome,    \* how the last command ended
    pre,        \* the durable state when the running command started
    ops,        \* commands started
    kills,      \* external terminations
    last        \* the command before the running one, when it was a rollback
                \* that restored a backup

vars == <<registry, regok, exe, tmp, backups, pc, loc, outcome, pre, ops, kills, last>>
durable == <<registry, regok, exe, tmp, backups>>

\* load_local_packages(): the entries of packages.json, and the empty
\* dictionary when the file is missing or does not parse.
load_local_packages == IF regok THEN registry ELSE <<>>

\* save_local_packages(data): the file is rewritten with the entries of data.
save_local_packages(data) == registry' = data /\ regok' = TRUE

NoLoc ==
    [cmd |-> "none", app |-> <<>>, version |-> <<>>, keep |-> FALSE,
     cur |-> <<>>, new |-> <<>>, tag |-> <<>>,
     checksum |-> NoChecksum, digest |-> NoChecksum,
     file |-> <<>>, manifest |-> {}, list |-> <<>>, idx |-> 0, tally |-> <<>>,
     unfetched |-> {}, resp |-> "none", opts |-> {}, answer |-> "none",
     issues |-> {}]
NoOutcome == [status |-> "none", err |-> "none"]
NoPre ==
    [registry |-> <<>>, exe |-> [n \in ExeNames |-> Absent],
     tmp |-> [n \in ExeNames |-> Absent], backups |-> <<>>]

NoLast == [cmd |-> "none", app |-> <<>>, version |-> <<>>, from |-> <<>>, exe |-> Absent]

Snapshot == [registry |-> registry, exe |-> exe, tmp |-> tmp, backups |-> backups]

\* The state after the bootstrap installer: cmam.exe in place, nothing installed.
Init ==
    /\ registry = <<>>
    /\ regok = TRUE
    /\ exe = [n \in ExeNames |-> IF n = S_cmam THEN Rel(S_cmam, S_v \o CMAM_VERSION) ELSE Absent]
    /\ tmp = [n \in ExeNames |-> Absent]
    /\ backups = <<>>
    /\ pc = "idle"
    /\ loc = NoLoc
    /\ outcome = NoOutcome
    /\ pre = NoPre
    /\ ops = 0
    /\ kills = 0
    /\ last = NoLast

\* A command starts: its arguments, and the durable state it starts from.
Begin(cmd, a, ver, keep, first) ==
    /\ pc = "idle"
    /\ ops < MaxOps
    /\ ops' = ops + 1
    /\ pc' = first
    /\ loc' = [NoLoc EXCEPT !.cmd = cmd, !.app = a, !.version = ver, !.keep = keep]
    /\ pre' = Snapshot
    /\ outcome' = NoOutcome
    /\ UNCHANGED <<durable, kills, last>>

\* The command ends: typer.Exit(code), a normal return, or an unhandled exception.
Finish(status, err) ==
    /\ pc' = "done"
    /\ outcome' = [status |-> status, err |-> err]

End(status, err) == Finish(status, err) /\ UNCHANGED loc

\* The shell has the result; the next command may start.
Return ==
    /\ pc = "done"
    /\ pc' = "idle"
    /\ loc' = NoLoc
    /\ outcome' = NoOutcome
    /\ pre' = NoPre
    /\ last' = IF loc.cmd = "rollback" /\ outcome = [status |-> "ok", err |-> "none"]
               THEN [cmd |-> "rollback", app |-> loc.app, version |-> loc.version,
                     from |-> loc.cur, exe |-> pre.exe[loc.app]]
               ELSE NoLast
    /\ UNCHANGED <<durable, ops, kills>>

\* The process is terminated from outside between two steps; outcome.err keeps
\* the step it was about to take.
Kill ==
    /\ pc \notin {"idle", "done"}
    /\ kills < MaxKills
    /\ kills' = kills + 1
    /\ pc' = "done"
    /\ outcome' = [status |-> "killed", err |-> pc]
    /\ loc' = [NoLoc EXCEPT !.cmd = loc.cmd, !.app = loc.app]
    /\ UNCHANGED <<durable, pre, ops, last>>

\* ------------------------------------------- fetch, verify, replace (shared)

\* How a release lookup can fail: status 404, another HTTP error status, or no
\* response at all (connection error, timeout).
LookupFailures == {"404", "http", "network"}

\* What install and update report for a failed lookup: "Version not found" for
\* a 404, "HTTP error" or "Network error" otherwise.
ReleaseError(r) == IF r = "404" THEN "ReleaseNotFound" ELSE "TransportError"

\* fetch_release_info on a failed lookup: None for a 404 and for a
\* RequestException that is not an HTTPError, the HTTPError re-raised otherwise.
fetch_release_info(r) == IF r \in {"404", "network"} THEN "None" ELSE "raise"

\* The asset chosen from a release and the checksum it carries.
Expected(a, rel) == IF rel.hasSum THEN Digest(Rel(a, rel.tag)) ELSE NoChecksum

\* The comparison that treats a missing expected checksum as a mismatch.
MismatchWhenMissing(checksum, digest) == checksum = NoChecksum \/ digest # checksum

\* A comparison that lets every artifact through.
MismatchNever(checksum, digest) == FALSE

\* if checksum: if f"sha256:{sha256.hexdigest()}" != checksum
Mismatch(checksum, digest) == checksum # NoChecksum /\ digest # checksum

\* The end of one turn of "for update_info in updates_available": counted.
Advance(tally) ==
    /\ loc' = [loc EXCEPT !.tally = tally]
    /\ pc' = "a_next"
    /\ UNCHANGED outcome

\* The except clause without its counting: the turn ends and nothing is added.
TalliedUncounted(e) == Advance(loc.tally)

\* except Exception: fail_count += 1; failed_apps.append(app_name)
Tallied(e) == Advance(Append(loc.tally, [name |-> loc.app, ok |-> FALSE, err |-> e]))

\* The download or the verification fails: typer.Exit(code=1) in install, update
\* and self-update; caught and counted in a turn of update-all.
Fail(e) == IF loc.cmd = "update_all" THEN Tallied(e) ELSE End("fail", e)

\* requests.get(exe_url, stream=True); r.raise_for_status(); open(tmp_path, 'wb')
DlOpen(a, nxt) ==
    \/ /\ Fail("FetchFailed")
       /\ UNCHANGED tmp
    \/ /\ tmp' = [tmp EXCEPT ![a] = Partial]
       /\ pc' = nxt
       /\ UNCHANGED <<loc, outcome>>

\* for chunk in r.iter_content(...): sha256.update(chunk); f.write(chunk)
DlStream(a, nxt) ==
    \/ /\ Fail("FetchFailed")
       /\ UNCHANGED tmp
    \/ \E c \in {Rel(a, loc.tag), Corrupt} :
        /\ tmp' = [tmp EXCEPT ![a] = c]
        /\ loc' = [loc EXCEPT !.digest = Digest(c)]
        /\ pc' = nxt
        /\ UNCHANGED outcome

\* The comparison without the os.remove(tmp_path) before the failure.
DlVerifyKeepsStaging(a, nxt) ==
    IF Mismatch(loc.checksum, loc.digest)
    THEN /\ Fail("IntegrityError")
         /\ UNCHANGED tmp
    ELSE /\ pc' = nxt
         /\ UNCHANGED <<tmp, loc, outcome>>

\* the checksum comparison; on a mismatch os.remove(tmp_path) and the failure
DlVerify(a, nxt) ==
    IF Mismatch(loc.checksum, loc.digest)
    THEN /\ tmp' = [tmp EXCEPT ![a] = Absent]
         /\ Fail("IntegrityError")
    ELSE /\ pc' = nxt
         /\ UNCHANGED <<tmp, loc, outcome>>

\* os.replace(tmp_path, exe_path)
DlReplace(a, nxt) ==
    /\ exe' = [exe EXCEPT ![a] = tmp[a]]
    /\ tmp' = [tmp EXCEPT ![a] = Absent]
    /\ pc' = nxt
    /\ UNCHANGED <<loc, outcome>>

\* ------------------------------------------------------------------ install

InstallStart ==
    \E a \in Apps, ver \in AskVersions : Begin("install", a, ver, FALSE, "i_check")

\* if os.path.exists(<app>.exe): "already installed"
InstallCheck ==
    /\ pc = "i_check"
    /\ IF exe[loc.app] # Absent
       THEN End("fail", "AlreadyInstalled")
       ELSE pc' = "i_manifest" /\ UNCHANGED <<loc, outcome>>
    /\ UNCHANGED <<durable, pre, ops, kills, last>>

\* fetch_manifest(); if app_name not in app_manifest
InstallManifest ==
    /\ pc = "i_manifest"
    /\ \/ End("fail", "CatalogUnavailable")
       \/ End("fail", "AppNotInCatalog")
       \/ pc' = "i_release" /\ UNCHANGED <<loc, outcome>>
    /\ UNCHANGED <<durable, pre, ops, kills, last>>

\* requests.get(api_url); the first .exe asset of the release
InstallRelease ==
    /\ pc = "i_release"
    /\ \/ \E r \in LookupFailures :
            /\ loc' = [loc EXCEPT !.resp = r]
            /\ Finish("fail", ReleaseError(r))
       \/ \E rel \in ReleaseResponses(loc.app, loc.version) :
            IF ~rel.hasExe
            THEN End("fail", "NoArtifactFound")
            ELSE /\ loc' = [loc EXCEPT !.tag = rel.tag,
                                       !.checksum = Expected(loc.app, rel)]
                 /\ pc' = "i_open"
                 /\ UNCHANGED outcome
    /\ UNCHANGED <<durable, pre, ops, kills, last>>

\* The download streamed to the executable's own path.
InstallOpenDirect ==
    /\ pc = "i_open"
    /\ \/ End("fail", "FetchFailed") /\ UNCHANGED exe
       \/ /\ exe' = [exe EXCEPT ![loc.app] = Partial]
          /\ pc' = "i_stream"
          /\ UNCHANGED <<loc, outcome>>
    /\ UNCHANGED <<registry, regok, tmp, backups, pre, ops, kills, last>>

InstallOpen ==
    /\ pc = "i_open"
    /\ DlOpen(loc.app, "i_stream")
    /\ UNCHANGED <<registry, regok, exe, backups, pre, ops, kills, last>>

InstallStream ==
    /\ pc = "i_stream"
    /\ DlStream(loc.app, "i_verify")
    /\ UNCHANGED <<registry, regok, exe, backups, pre, ops, kills, last>>

InstallVerify ==
    /\ pc = "i_verify"
    /\ DlVerify(loc.app, "i_replace")
    /\ UNCHANGED <<registry, regok, exe, backups, pre, ops, kills, last>>

InstallReplace ==
    /\ pc = "i_replace"
    /\ DlReplace(loc.app, "i_save")
    /\ UNCHANGED <<registry, regok, backups, pre, ops, kills, last>>

\* app_version.replace("v", "")
InstallVersion(tag) == RemoveAll(tag, S_v)

\* data = load_local_packages(); data[app_name] = {...}; save_local_packages(data)
\* install returns; called from import, the turn is counted as installed
\* (success_count += 1) and the loop goes on.
InstallSave ==
    /\ pc = "i_save"
    /\ save_local_packages(RegSet(load_local_packages, loc.app, InstallVersion(loc.tag)))
    /\ IF loc.cmd = "import"
       THEN /\ loc' = [loc EXCEPT !.tally = Append(loc.tally,
                                      [name |-> loc.app, ok |-> TRUE, err |-> "none"])]
            /\ pc' = "m_next"
            /\ UNCHANGED outcome
       ELSE End("ok", "none")
    /\ UNCHANGED <<exe, tmp, backups, pre, ops, kills, last>>

\* ------------------------------------------------------------------- update

UpdateStart ==
    \E a \in Apps, ver \in AskVersions, keep \in BOOLEAN :
        Begin("update", a, ver, keep, "u_check")

\* if not os.path.exists(exe_path): "is not installed"
UpdateCheck ==
    /\ pc = "u_check"
    /\ IF exe[loc.app] = Absent
       THEN End("fail", "NotInstalled")
       ELSE pc' = "u_manifest" /\ UNCHANGED <<loc, outcome>>
    /\ UNCHANGED <<durable, pre, ops, kills, last>>

\* fetch_manifest(); data = load_local_packages(); current_version
UpdateManifest ==
    /\ pc = "u_manifest"
    /\ \/ End("fail", "CatalogUnavailable")
       \/ End("fail", "AppNotInCatalog")
       \/ /\ loc' = [loc EXCEPT !.cur = RegVer(load_local_packages, loc.app)]
          /\ pc' = "u_release"
          /\ UNCHANGED outcome
    /\ UNCHANGED <<durable, pre, ops, kills, last>>

\* release_data.get("tag_name", "").lstrip("v")
UpdateVersion(tag) == LStripV(tag)

\* The version test left out.
UpToDateNever(cur, new) == FALSE

\* if current_version == new_version: "No update needed", Exit(code=0)
UpToDate(cur, new) == cur = new

UpdateRelease ==
    /\ pc = "u_release"
    /\ \/ \E r \in LookupFailures :
            /\ loc' = [loc EXCEPT !.resp = r]
            /\ Finish("fail", ReleaseError(r))
       \/ \E rel \in ReleaseResponses(loc.app, loc.version) :
            LET new == UpdateVersion(rel.tag) IN
            /\ loc' = [loc EXCEPT !.tag = rel.tag, !.new = new,
                                  !.checksum = IF rel.hasExe THEN Expected(loc.app, rel)
                                               ELSE NoChecksum]
            /\ IF loc.version # <<>> /\ new # loc.version
               THEN Finish("fail", "VersionMismatch")
               ELSE IF UpToDate(loc.cur, new)
               THEN Finish("ok", "UpToDate")
               ELSE IF ~rel.hasExe
               THEN Finish("fail", "NoArtifactFound")
               ELSE pc' = "u_backup" /\ UNCHANGED outcome
    /\ UNCHANGED <<durable, pre, ops, kills, last>>

\* The backup taken under the new version's name.
UpdateBackupNewVersion ==
    /\ pc = "u_backup"
    /\ backups' = IF loc.keep THEN create_backup(backups, exe, loc.app, loc.new)
                  ELSE backups
    /\ pc' = "u_open"
    /\ UNCHANGED <<registry, regok, exe, tmp, loc, outcome, pre, ops, kills, last>>

\* if keep_backup: create_backup(app_name, current_version)
UpdateBackup ==
    /\ pc = "u_backup"
    /\ backups' = IF loc.keep THEN create_backup(backups, exe, loc.app, loc.cur)
                  ELSE backups
    /\ pc' = "u_open"
    /\ UNCHANGED <<registry, regok, exe, tmp, loc, outcome, pre, ops, kills, last>>

UpdateOpen ==
    /\ pc = "u_open"
    /\ DlOpen(loc.app, "u_stream")
    /\ UNCHANGED <<registry, regok, exe, backups, pre, ops, kills, last>>

UpdateStream ==
    /\ pc = "u_stream"
    /\ DlStream(loc.app, "u_verify")
    /\ UNCHANGED <<registry, regok, exe, backups, pre, ops, kills, last>>

\* The executable replaced before the digest is compared.
UpdateVerifyAfterReplace ==
    /\ pc = "u_verify"
    /\ IF Mismatch(loc.checksum, loc.digest)
       THEN /\ exe' = [exe EXCEPT ![loc.app] = tmp[loc.app]]
            /\ tmp' = [tmp EXCEPT ![loc.app] = Absent]
            /\ End("fail", "IntegrityError")
       ELSE /\ pc' = "u_replace"
            /\ UNCHANGED <<exe, tmp, loc, outcome>>
    /\ UNCHANGED <<registry, regok, backups, pre, ops, kills, last>>

UpdateVerify ==
    /\ pc = "u_verify"
    /\ DlVerify(loc.app, "u_replace")
    /\ UNCHANGED <<registry, regok, exe, backups, pre, ops, kills, last>>

UpdateReplace ==
    /\ pc = "u_replace"
    /\ DlReplace(loc.app, "u_save")
    /\ UNCHANGED <<registry, regok, backups, pre, ops, kills, last>>

\* data[app_name] = {"version": new_version}; save_local_packages(data)
UpdateSave ==
    /\ pc = "u_save"
    /\ save_local_packages(RegSet(load_local_packages, loc.app, loc.new))
    /\ End("ok", "none")
    /\ UNCHANGED <<exe, tmp, backups, pre, ops, kills, last>>

\* ---------------------------------------------------------------- uninstall

UninstallStart ==
    \E a \in Apps, keep \in BOOLEAN : Begin("uninstall", a, <<>>, keep, "x_check")

UninstallCheck ==
    /\ pc = "x_check"
    /\ IF exe[loc.app] = Absent
       THEN End("fail", "NotInstalled")
       ELSE pc' = "x_remove" /\ UNCHANGED <<loc, outcome>>
    /\ UNCHANGED <<durable, pre, ops, kills, last>>

\* try: os.remove(exe_path) / except Exception: Exit(code=1)
UninstallRemove ==
    /\ pc = "x_remove"
    /\ \/ End("fail", "RemoveFailed") /\ UNCHANGED exe
       \/ /\ exe' = [exe EXCEPT ![loc.app] = Absent]
          /\ pc' = IF loc.keep THEN "x_registry" ELSE "x_list"
          /\ UNCHANGED <<loc, outcome>>
    /\ UNCHANGED <<registry, regok, tmp, backups, pre, ops, kills, last>>

\* The orders backups.sort(key=parse_version, reverse=True) can leave the
\* files of get_backups in.
SortedBackups(dir, a) ==
    LET files == BackupFiles(dir, a)
        key(f) == parse_version(BackupVersion(f, a))
    IN  {seq \in [1..Cardinality(files) -> files] :
            /\ \A i, j \in DOMAIN seq : i # j => seq[i] # seq[j]
            /\ \A i, j \in DOMAIN seq : i < j => ~TupleLess(key(seq[i]), key(seq[j]))}

\* backups = get_backups(app_name): the list to remove, or the sort's ValueError
UninstallList ==
    /\ pc = "x_list"
    /\ IF GetBackupsRaises(backups, loc.app)
       THEN End("crash", "ValueError")
       ELSE \E seq \in SortedBackups(backups, loc.app) :
              /\ loc' = [loc EXCEPT !.list = seq]
              /\ pc' = "x_backups"
              /\ UNCHANGED outcome
    /\ UNCHANGED <<durable, pre, ops, kills, last>>

\* for backup in backups: try: os.remove(backup['path']) / except Exception: pass
UninstallBackups ==
    /\ pc = "x_backups"
    /\ IF loc.list = <<>>
       THEN pc' = "x_registry" /\ UNCHANGED <<backups, loc>>
       ELSE /\ \/ backups' = RemoveFile(backups, Head(loc.list))
               \/ UNCHANGED backups
            /\ loc' = [loc EXCEPT !.list = Tail(loc.list)]
            /\ pc' = "x_backups"
    /\ UNCHANGED <<registry, regok, exe, tmp, outcome, pre, ops, kills, last>>

\* data = load_local_packages(); if app_name in data: del data[app_name]; save
UninstallRegistry ==
    /\ pc = "x_registry"
    /\ IF RegHas(load_local_packages, loc.app)
       THEN save_local_packages(RegDel(load_local_packages, loc.app))
       ELSE UNCHANGED <<registry, regok>>
    /\ End("ok", "none")
    /\ UNCHANGED <<exe, tmp, backups, pre, ops, kills, last>>

\* ------------------------------------------------------------------- repair

RepairStart == \E a \in Apps : Begin("repair", a, <<>>, FALSE, "r_check")

\* data = load_local_packages(); if app_name not in data; current_version
RepairCheck ==
    /\ pc = "r_check"
    /\ IF ~RegHas(load_local_packages, loc.app)
       THEN End("fail", "NotInstalled")
       ELSE /\ loc' = [loc EXCEPT !.cur = RegVer(load_local_packages, loc.app)]
            /\ pc' = "r_remove"
            /\ UNCHANGED outcome
    /\ UNCHANGED <<durable, pre, ops, kills, last>>

\* if os.path.exists(exe_path): try: os.remove(exe_path) / except: Exit(code=1)
RepairRemove ==
    /\ pc = "r_remove"
    /\ \/ exe[loc.app] # Absent /\ End("fail", "RemoveFailed") /\ UNCHANGED exe
       \/ /\ exe' = [exe EXCEPT ![loc.app] = Absent]
          /\ pc' = "r_unreg"
          /\ UNCHANGED <<loc, outcome>>
    /\ UNCHANGED <<registry, regok, tmp, backups, pre, ops, kills, last>>

\* del data[app_name]; save_local_packages(data); install(app_name, version=...)
RepairUnregister ==
    /\ pc = "r_unreg"
    /\ save_local_packages(RegDel(load_local_packages, loc.app))
    /\ loc' = [loc EXCEPT !.version = loc.cur]
    /\ pc' = "i_check"
    /\ UNCHANGED <<exe, tmp, backups, outcome, pre, ops, kills, last>>

\* ----------------------------------------------------------------- rollback

RollbackStart ==
    \E a \in Apps, ver \in AskVersions : Begin("rollback", a, ver, FALSE, "b_check")

\* the backup of get_backups whose 'version' is the version asked for
TargetBackups(dir, a, ver) == {f \in BackupFiles(dir, a) : BackupVersion(f, a) = ver}

RollbackCheck ==
    /\ pc = "b_check"
    /\ IF ~RegHas(load_local_packages, loc.app) THEN End("fail", "NotInstalled")
       ELSE IF GetBackupsRaises(backups, loc.app) THEN End("crash", "ValueError")
       ELSE IF BackupFiles(backups, loc.app) = {} THEN End("fail", "NoBackupsAvailable")
       ELSE IF loc.version = <<>> THEN End("ok", "Listed")
       ELSE IF TargetBackups(backups, loc.app, loc.version) = {}
       THEN End("fail", "BackupNotFound")
       ELSE \E f \in TargetBackups(backups, loc.app, loc.version) :
              /\ loc' = [loc EXCEPT !.cur = RegVer(load_local_packages, loc.app), !.file = f]
              /\ pc' = "b_backup"
              /\ UNCHANGED outcome
    /\ UNCHANGED <<durable, pre, ops, kills, last>>

\* create_backup(app_name, current_version)
RollbackBackup ==
    /\ pc = "b_backup"
    /\ backups' = create_backup(backups, exe, loc.app, loc.cur)
    /\ pc' = "b_open"
    /\ UNCHANGED <<registry, regok, exe, tmp, loc, outcome, pre, ops, kills, last>>

\* shutil.copy2(target_backup['path'], exe_path): the destination is opened for
\* writing and filled; an exception ends the command
RollbackOpen ==
    /\ pc = "b_open"
    /\ \/ End("fail", "RestoreFailed") /\ UNCHANGED exe
       \/ /\ exe' = [exe EXCEPT ![loc.app] = Partial]
          /\ pc' = "b_copy"
          /\ UNCHANGED <<loc, outcome>>
    /\ UNCHANGED <<registry, regok, tmp, backups, pre, ops, kills, last>>

\* The executable filled from any backup of the app.
RollbackCopyAny ==
    /\ pc = "b_copy"
    /\ \E f \in BackupFiles(backups, loc.app) :
          /\ exe' = [exe EXCEPT ![loc.app] = backups[f]]
          /\ pc' = "b_save"
          /\ UNCHANGED <<loc, outcome>>
    /\ UNCHANGED <<registry, regok, tmp, backups, pre, ops, kills, last>>

RollbackCopy ==
    /\ pc = "b_copy"
    /\ \/ End("fail", "RestoreFailed") /\ UNCHANGED exe
       \/ /\ exe' = [exe EXCEPT ![loc.app] = backups[loc.file]]
          /\ pc' = "b_save"
          /\ UNCHANGED <<loc, outcome>>
    /\ UNCHANGED <<registry, regok, tmp, backups, pre, ops, kills, last>>

\* data[app_name]["version"] = version; save_local_packages(data)
RollbackSave ==
    /\ pc = "b_save"
    /\ save_local_packages(RegSet(load_local_packages, loc.app, loc.version))
    /\ End("ok", "none")
    /\ UNCHANGED <<exe, tmp, backups, pre, ops, kills, last>>

\* --------------------------------------------------------------- update-all

\* The catalogs fetch_manifest may return to update-all.
Manifests == {Apps, {S_app}, {S_appview}}

UpdateAllStart ==
    \E keep \in BOOLEAN : Begin("update_all", <<>>, <<>>, keep, "a_load")

\* data = load_local_packages(); if not data: return
UpdateAllLoad ==
    /\ pc = "a_load"
    /\ IF load_local_packages = <<>>
       THEN End("ok", "NothingInstalled")
       ELSE pc' = "a_manifest" /\ UNCHANGED <<loc, outcome>>
    /\ UNCHANGED <<durable, pre, ops, kills, last>>

\* manifest = fetch_manifest()
UpdateAllManifest ==
    /\ pc = "a_manifest"
    /\ \/ End("fail", "CatalogUnavailable")
       \/ \E m \in Manifests :
            /\ loc' = [loc EXCEPT !.manifest = m, !.idx = 1]
            /\ pc' = "a_check"
            /\ UNCHANGED outcome
    /\ UNCHANGED <<durable, pre, ops, kills, last>>

\* parse_version(latest_version) > parse_version(current_version), inside the
\* try whose except skips the app
Newer(latest, cur) ==
    /\ parse_version(latest) # Invalid
    /\ parse_version(cur) # Invalid
    /\ TupleLess(parse_version(cur), parse_version(latest))

\* Every different version taken as an update.
OutdatedIfDifferent(cur, latest) == cur # latest /\ latest # <<>>

\* if current_version != latest_version and latest_version: ... append
Outdated(cur, latest) == cur # latest /\ latest # <<>> /\ Newer(latest, cur)

\* The end of the version-check pass.
AfterCheck(list) ==
    IF list = <<>> THEN End("ok", "AllUpToDate")
    ELSE /\ pc' = "a_confirm"
         /\ UNCHANGED outcome

\* One turn of "for app_name, info in data.items()": the version check.
UpdateAllCheck ==
    /\ pc = "a_check"
    /\ LET a == load_local_packages[loc.idx].name
           cur == load_local_packages[loc.idx].version
           final == loc.idx = Len(load_local_packages)
           Skip(unfetched) ==
                   /\ loc' = [loc EXCEPT !.idx = loc.idx + 1, !.unfetched = unfetched]
                   /\ IF final THEN AfterCheck(loc.list)
                      ELSE pc' = "a_check" /\ UNCHANGED outcome
       IN  IF a \notin loc.manifest THEN Skip(loc.unfetched)
           ELSE \/ Skip(loc.unfetched \cup {a})  \* fetch_release_info returns None:
                                                 \* 404 or no network
                \/ End("crash", "HTTPError")  \* another HTTP status: re-raised
                \/ \E rel \in ReleaseResponses(a, <<>>) :
                     LET latest == LStripV(rel.tag)
                         list == IF Outdated(cur, latest)
                                 THEN Append(loc.list, [name |-> a, current |-> cur,
                                                        latest |-> latest])
                                 ELSE loc.list
                     IN  /\ loc' = [loc EXCEPT !.idx = loc.idx + 1, !.list = list]
                         /\ IF final THEN AfterCheck(list)
                            ELSE pc' = "a_check" /\ UNCHANGED outcome
    /\ UNCHANGED <<durable, pre, ops, kills, last>>

\* if not yes and not Confirm.ask(...): "Update cancelled."
UpdateAllConfirm ==
    /\ pc = "a_confirm"
    /\ \/ End("ok", "Cancelled")
       \/ /\ loc' = [loc EXCEPT !.idx = 1, !.app = loc.list[1].name]
          /\ pc' = "a_release"
          /\ UNCHANGED outcome
    /\ UNCHANGED <<durable, pre, ops, kills, last>>

\* The next turn, or the summary after the last.  pre is the durable state at
\* the start of the turn.
UpdateAllNext ==
    /\ pc = "a_next"
    /\ IF loc.idx = Len(loc.list)
       THEN End("ok", "Summary") /\ UNCHANGED pre
       ELSE /\ loc' = [loc EXCEPT !.idx = loc.idx + 1,
                                  !.app = loc.list[loc.idx + 1].name,
                                  !.tag = <<>>, !.cur = <<>>, !.new = <<>>,
                                  !.checksum = NoChecksum, !.digest = NoChecksum]
            /\ pc' = "a_release"
            /\ pre' = Snapshot
            /\ UNCHANGED outcome
    /\ UNCHANGED <<durable, ops, kills, last>>

\* requests.get(.../releases/latest); the first .exe asset
UpdateAllRelease ==
    /\ pc = "a_release"
    /\ \/ Tallied("TransportError")
       \/ \E rel \in ReleaseResponses(loc.app, <<>>) :
            IF ~rel.hasExe
            THEN Tallied("NoArtifactFound")
            ELSE /\ loc' = [loc EXCEPT !.tag = rel.tag,
                                       !.cur = loc.list[loc.idx].current,
                                       !.new = loc.list[loc.idx].latest,
                                       !.checksum = Expected(loc.app, rel)]
                 /\ pc' = "a_backup"
                 /\ UNCHANGED outcome
    /\ UNCHANGED <<durable, pre, ops, kills, last>>

UpdateAllBackup ==
    /\ pc = "a_backup"
    /\ backups' = IF loc.keep THEN create_backup(backups, exe, loc.app, loc.cur)
                  ELSE backups
    /\ pc' = "a_open"
    /\ UNCHANGED <<registry, regok, exe, tmp, loc, outcome, pre, ops, kills, last>>

UpdateAllOpen ==
    /\ pc = "a_open"
    /\ DlOpen(loc.app, "a_stream")
    /\ UNCHANGED <<registry, regok, exe, backups, pre, ops, kills, last>>

UpdateAllStream ==
    /\ pc = "a_stream"
    /\ DlStream(loc.app, "a_verify")
    /\ UNCHANGED <<registry, regok, exe, backups, pre, ops, kills, last>>

UpdateAllVerify ==
    /\ pc = "a_verify"
    /\ DlVerify(loc.app, "a_replace")
    /\ UNCHANGED <<registry, regok, exe, backups, pre, ops, kills, last>>

UpdateAllReplace ==
    /\ pc = "a_replace"
    /\ DlReplace(loc.app, "a_save")
    /\ UNCHANGED <<registry, regok, backups, pre, ops, kills, last>>

\* data = load_local_packages(); data[app_name]["version"] = new_version; save
UpdateAllSave ==
    /\ pc = "a_save"
    /\ IF RegHas(load_local_packages, loc.app)
       THEN /\ save_local_packages(RegSet(load_local_packages, loc.app, loc.new))
            /\ Advance(Append(loc.tally, [name |-> loc.app, ok |-> TRUE, err |-> "none"]))
       ELSE /\ UNCHANGED <<registry, regok>>
            /\ Tallied("KeyError")
    /\ UNCHANGED <<exe, tmp, backups, pre, ops, kills, last>>

\* -------------------------------------------------------------- self-update

SelfUpdateStart == Begin("self_update", S_cmam, <<>>, TRUE, "s_release")

\* parse_version(CMAM_VERSION) >= parse_version(latest_version)
SelfCurrent(latest) == ~TupleLess(parse_version(CMAM_VERSION), parse_version(latest))

\* fetch_release_info(CMAM_REPO), the version test, get_exe_asset, current_exe
SelfUpdateRelease ==
    /\ pc = "s_release"
    /\ \/ \E r \in LookupFailures :
            /\ loc' = [loc EXCEPT !.resp = r]
            /\ IF fetch_release_info(r) = "None"
               THEN Finish("fail", "ReleaseNotFound")
               ELSE Finish("crash", "HTTPError")
       \/ \E rel \in ReleaseResponses(S_cmam, <<>>) :
            IF parse_version(LStripV(rel.tag)) = Invalid THEN End("crash", "ValueError")
            ELSE IF SelfCurrent(LStripV(rel.tag)) THEN End("ok", "UpToDate")
            ELSE IF ~rel.hasExe THEN End("fail", "NoArtifactFound")
            ELSE IF exe[S_cmam] = Absent THEN End("fail", "CannotLocate")
            ELSE /\ loc' = [loc EXCEPT !.tag = rel.tag, !.cur = CMAM_VERSION,
                                       !.new = LStripV(rel.tag),
                                       !.checksum = Expected(S_cmam, rel)]
                 /\ pc' = "s_backup"
                 /\ UNCHANGED outcome
    /\ UNCHANGED <<durable, pre, ops, kills, last>>

\* create_backup("cmam", CMAM_VERSION)
SelfUpdateBackup ==
    /\ pc = "s_backup"
    /\ backups' = create_backup(backups, exe, S_cmam, CMAM_VERSION)
    /\ pc' = "s_open"
    /\ UNCHANGED <<registry, regok, exe, tmp, loc, outcome, pre, ops, kills, last>>

\* download_file_with_progress(asset['url'], tmp_path)
SelfUpdateOpen ==
    /\ pc = "s_open"
    /\ \/ End("fail", "FetchFailed") /\ UNCHANGED tmp
       \/ /\ tmp' = [tmp EXCEPT ![S_cmam] = Partial]
          /\ pc' = "s_stream"
          /\ UNCHANGED <<loc, outcome>>
    /\ UNCHANGED <<registry, regok, exe, backups, pre, ops, kills, last>>

SelfUpdateStream ==
    /\ pc = "s_stream"
    \* except Exception: if os.path.exists(tmp_path): os.remove(tmp_path)
    /\ \/ /\ End("fail", "FetchFailed")
          /\ tmp' = [tmp EXCEPT ![S_cmam] = Absent]
       \/ \E c \in {Rel(S_cmam, loc.tag), Corrupt} :
            /\ tmp' = [tmp EXCEPT ![S_cmam] = c]
            /\ loc' = [loc EXCEPT !.digest = Digest(c)]
            /\ pc' = "s_verify"
            /\ UNCHANGED outcome
    /\ UNCHANGED <<registry, regok, exe, backups, pre, ops, kills, last>>

SelfUpdateVerify ==
    /\ pc = "s_verify"
    /\ DlVerify(S_cmam, "s_move")
    /\ UNCHANGED <<registry, regok, exe, backups, pre, ops, kills, last>>

\* update_cmam.bat: move /y "<tmp_path>" "<current_exe>"
SelfUpdateMove ==
    /\ pc = "s_move"
    /\ exe' = [exe EXCEPT ![S_cmam] = tmp[S_cmam]]
    /\ tmp' = [tmp EXCEPT ![S_cmam] = Absent]
    /\ End("ok", "none")
    /\ UNCHANGED <<registry, regok, backups, pre, ops, kills, last>>

\* ----------------------------------------------------------------- validate

ValidateStart == Begin("validate", <<>>, <<>>, FALSE, "d_load")

\* data = load_local_packages(); if not data: return; manifest = fetch_manifest()
ValidateLoad ==
    /\ pc = "d_load"
    /\ IF load_local_packages = <<>>
       THEN End("ok", "none")
       ELSE \/ End("fail", "CatalogUnavailable")
            \/ \E m \in Manifests :
                 /\ loc' = [loc EXCEPT !.manifest = m]
                 /\ pc' = "d_next"
                 /\ UNCHANGED outcome
    /\ UNCHANGED <<durable, pre, ops, kills, last>>

\* table.add_row(app_name, ..., status) and the counter of the class.
Classified(a, class) ==
    /\ loc' = [loc EXCEPT !.idx = loc.idx + 1,
                          !.tally = Append(loc.tally,
                              [name |-> a, ok |-> class = "valid", err |-> class])]
    /\ UNCHANGED <<pc, outcome>>

\* One turn of "for app_name, info in data.items()"; after the last one the
\* table and the three counters are printed.
ValidateNext ==
    /\ pc = "d_next"
    /\ IF loc.idx = Len(load_local_packages)
       THEN End("ok", "none")
       ELSE LET a == load_local_packages[loc.idx + 1].name
                version == load_local_packages[loc.idx + 1].version
            IN  IF exe[a] = Absent THEN Classified(a, "invalid")
                ELSE IF a \notin loc.manifest THEN Classified(a, "unknown")
                ELSE \/ \E r \in LookupFailures :
                          IF fetch_release_info(r) = "None"
                          THEN Classified(a, "unknown")
                          ELSE End("crash", "HTTPError")
                     \/ \E rel \in ReleaseResponses(a, version) :
                          IF ~rel.hasExe \/ ~rel.hasSum
                          THEN Classified(a, "unknown")
                          ELSE IF Digest(exe[a]) = Expected(a, rel)
                               THEN Classified(a, "valid")
                               ELSE Classified(a, "invalid")
    /\ UNCHANGED <<durable, pre, ops, kills, last>>

\* ------------------------------------------------------------------- import

\* One entry of the "apps" object of an import file: the name and the version
\* asked for (<<>> where the entry carries none).
Entry(a, v) == [name |-> a, version |-> v]

\* The import files: the entries of "apps" in file order.
ImportFiles ==
    {<<>>,
     <<Entry(S_app, S_100)>>,
     <<Entry(S_app, S_100), Entry(S_appview, S_100)>>,
     <<Entry(S_appview, <<>>), Entry(S_app, S_200)>>}

ImportStart ==
    /\ pc = "idle"
    /\ ops < MaxOps
    /\ ops' = ops + 1
    /\ pc' = "m_load"
    /\ \E file \in ImportFiles, skip_existing \in BOOLEAN :
          loc' = [NoLoc EXCEPT !.cmd = "import", !.list = file, !.keep = skip_existing]
    /\ pre' = Snapshot
    /\ outcome' = NoOutcome
    /\ UNCHANGED <<durable, kills, last>>

\* The file is missing or is not JSON: typer.Exit(code=1); no apps in it: return.
ImportLoad ==
    /\ pc = "m_load"
    /\ \/ End("fail", "FileNotFound")
       \/ End("fail", "InvalidJSON")
       \/ IF loc.list = <<>>
          THEN End("ok", "none")
          ELSE pc' = "m_next" /\ UNCHANGED <<loc, outcome>>
    /\ UNCHANGED <<durable, pre, ops, kills, last>>

\* One turn of "for app_name, info in apps.items()" up to the call of install:
\* an app with a Registry entry is skipped under --skip-existing, and otherwise
\* its executable and its entry are removed first. After the last turn the
\* summary is printed.
ImportNext ==
    /\ pc = "m_next"
    /\ IF loc.idx = Len(loc.list)
       THEN /\ End("ok", "none")
            /\ UNCHANGED <<registry, regok, exe>>
       ELSE LET e == loc.list[loc.idx + 1] IN
            IF loc.keep /\ RegHas(load_local_packages, e.name)
            THEN /\ loc' = [loc EXCEPT !.idx = loc.idx + 1,
                                       !.tally = Append(loc.tally,
                                           [name |-> e.name, ok |-> FALSE, err |-> "skipped"])]
                 /\ UNCHANGED <<registry, regok, exe, pc, outcome>>
            ELSE /\ loc' = [loc EXCEPT !.idx = loc.idx + 1,
                                       !.app = e.name, !.version = e.version,
                                       !.tag = <<>>, !.checksum = NoChecksum,
                                       !.digest = NoChecksum]
                 /\ IF RegHas(load_local_packages, e.name)
                    THEN /\ exe' = [exe EXCEPT ![e.name] = Absent]
                         /\ save_local_packages(RegDel(load_local_packages, e.name))
                    ELSE UNCHANGED <<registry, regok, exe>>
                 /\ pc' = "i_check"
                 /\ UNCHANGED outcome
    /\ UNCHANGED <<tmp, backups, pre, ops, kills, last>>

\* -------------------------------------------------------------------- clean

\* The options of clean: --cache/--no-cache, --orphans/--no-orphans, --backups.
CleanOptions == {"cache", "orphans", "backups"}

\* What is left of a directory when the files outside kept have been removed.
Keep(dir, kept) == [f \in kept |-> dir[f]]

CleanStart ==
    /\ pc = "idle"
    /\ ops < MaxOps
    /\ ops' = ops + 1
    /\ pc' = "c_cache"
    /\ \E o \in SUBSET CleanOptions : loc' = [NoLoc EXCEPT !.cmd = "clean", !.opts = o]
    /\ pre' = Snapshot
    /\ outcome' = NoOutcome
    /\ UNCHANGED <<durable, kills, last>>

\* if cache: for item in os.listdir(CMAM_CACHE): the item "backups" is skipped
\* unless --backups was given; a directory is removed with shutil.rmtree, and an
\* exception of the removal is printed and the loop goes on. CMAM_BACKUPS is
\* CMAM_CACHE/backups.
CleanCache ==
    /\ pc = "c_cache"
    /\ IF "cache" \in loc.opts /\ "backups" \in loc.opts
       THEN \E kept \in SUBSET DOMAIN backups : backups' = Keep(backups, kept)
       ELSE UNCHANGED backups
    /\ pc' = "c_backups"
    /\ UNCHANGED <<registry, regok, exe, tmp, loc, outcome, pre, ops, kills, last>>

\* if backups: Confirm.ask(...); on a yes os.remove of every file of
\* CMAM_BACKUPS, an exception of a removal being passed over.
CleanBackups ==
    /\ pc = "c_backups"
    /\ IF "backups" \in loc.opts
       THEN \E yes \in BOOLEAN :
              /\ loc' = [loc EXCEPT !.answer = IF yes THEN "yes" ELSE "no"]
              /\ IF yes
                 THEN \E kept \in SUBSET DOMAIN backups : backups' = Keep(backups, kept)
                 ELSE UNCHANGED backups
       ELSE UNCHANGED <<backups, loc>>
    /\ pc' = "c_orphans"
    /\ UNCHANGED <<registry, regok, exe, tmp, outcome, pre, ops, kills, last>>

\* The files of CMAM_SCRIPTS that clean takes for orphans: name.exe with name
\* not a key of packages.json and name not "cmam".
Orphans(reg, x) == {n \in DOMAIN x : x[n] # Absent /\ ~RegHas(reg, n) /\ n # S_cmam}

\* if orphans: os.remove of every orphan, an exception of a removal being
\* printed and the loop going on; then the summary.
CleanOrphans ==
    /\ pc = "c_orphans"
    /\ IF "orphans" \in loc.opts
       THEN \E removed \in SUBSET Orphans(load_local_packages, exe) :
              exe' = [n \in DOMAIN exe |-> IF n \in removed THEN Absent ELSE exe[n]]
       ELSE UNCHANGED exe
    /\ End("ok", "none")
    /\ UNCHANGED <<registry, regok, tmp, backups, pre, ops, kills, last>>

Next ==
    \/ InstallStart \/ InstallCheck \/ InstallManifest \/ InstallRelease
    \/ InstallOpen \/ InstallStream \/ InstallVerify \/ InstallReplace
    \/ InstallSave
    \/ UpdateStart \/ UpdateCheck \/ UpdateManifest \/ UpdateRelease
    \/ UpdateBackup \/ UpdateOpen \/ UpdateStream \/ UpdateVerify
    \/ UpdateReplace \/ UpdateSave
    \/ UpdateAllStart \/ UpdateAllLoad \/ UpdateAllManifest \/ UpdateAllCheck
    \/ UpdateAllConfirm \/ UpdateAllRelease \/ UpdateAllBackup \/ UpdateAllOpen
    \/ UpdateAllStream \/ UpdateAllVerify \/ UpdateAllReplace \/ UpdateAllSave
    \/ UpdateAllNext
    \/ SelfUpdateStart \/ SelfUpdateRelease \/ SelfUpdateBackup \/ SelfUpdateOpen
    \/ SelfUpdateStream \/ SelfUpdateVerify \/ SelfUpdateMove
    \/ UninstallStart \/ UninstallCheck \/ UninstallRemove \/ UninstallList
    \/ UninstallBackups \/ UninstallRegistry
    \/ RepairStart \/ RepairCheck \/ RepairRemove \/ RepairUnregister
    \/ RollbackStart \/ RollbackCheck \/ RollbackBackup \/ RollbackOpen
    \/ RollbackCopy \/ RollbackSave
    \/ ValidateStart \/ ValidateLoad \/ ValidateNext
    \/ CleanStart \/ CleanCache \/ CleanBackups \/ CleanOrphans
    \/ Return \/ Kill

Spec == Init /\ [][Next]_vars

\* The batch import and the install it calls for each entry, next to plain
\* installs, from the empty installation.
NextImport ==
    \/ ImportStart \/ ImportLoad \/ ImportNext
    \/ InstallStart \/ InstallCheck \/ InstallManifest \/ InstallRelease
    \/ InstallOpen \/ InstallStream \/ InstallVerify \/ InstallReplace
    \/ InstallSave
    \/ Return \/ Kill

SpecImport == Init /\ [][NextImport]_vars

\* ------------------------------------------------------------------- doctor

\* An entry of doctor's list of issues.
Issue(kind, a) == [kind |-> kind, app |-> a]

DoctorStart == Begin("doctor", <<>>, <<>>, FALSE, "h_registry")

\* An exception leaves load_local_packages: never for a missing or malformed
\* file, which it catches itself (FileNotFoundError, json.JSONDecodeError) and
\* answers with {}.
LoadRaises == FALSE

\* Check 2: try: data = load_local_packages() ... except Exception:
\* issues.append("packages.json is corrupted")
DoctorRegistry ==
    /\ pc = "h_registry"
    /\ loc' = [loc EXCEPT !.issues =
                  IF LoadRaises THEN loc.issues \cup {Issue("corrupted", <<>>)}
                  ELSE loc.issues]
    /\ pc' = "h_apps"
    /\ UNCHANGED <<durable, outcome, pre, ops, kills, last>>

\* Check 4: every registered app without scripts/<app>.exe is an issue.
DoctorApps ==
    /\ pc = "h_apps"
    /\ loc' = [loc EXCEPT !.issues = loc.issues \cup
                  {Issue("missing", a) : a \in {n \in RegNames(load_local_packages) :
                                                  exe[n] = Absent}}]
    /\ pc' = "h_remote"
    /\ UNCHANGED <<durable, outcome, pre, ops, kills, last>>

\* Checks 6 and 7: the GitHub API not answering is an issue; fetch_manifest
\* failing raises typer.Exit, which "except SystemExit" does not catch.
DoctorRemote ==
    /\ pc = "h_remote"
    /\ \E reachable \in BOOLEAN :
         loc' = [loc EXCEPT !.issues =
                    IF reachable THEN loc.issues
                    ELSE loc.issues \cup {Issue("network", <<>>)}]
    /\ \/ Finish("ok", "none")
       \/ Finish("fail", "CatalogUnavailable")
    /\ UNCHANGED <<durable, pre, ops, kills, last>>

\* ------------------------------------------- a malformed registry file

\* packages.json is left malformed from outside a command (an edit by hand, a
\* write cut short): it no longer parses, and what it held is lost only when
\* the file is written over.
Damage ==
    /\ pc = "idle"
    /\ regok
    /\ regok' = FALSE
    /\ UNCHANGED <<registry, exe, tmp, backups, pc, loc, outcome, pre, ops, kills, last>>

\* install and doctor with a registry file that may be malformed.
NextRegistry ==
    \/ InstallStart \/ InstallCheck \/ InstallManifest \/ InstallRelease
    \/ InstallOpen \/ InstallStream \/ InstallVerify \/ InstallReplace
    \/ InstallSave
    \/ DoctorStart \/ DoctorRegistry \/ DoctorApps \/ DoctorRemote
    \/ Damage \/ Return

SpecRegistry == Init /\ [][NextRegistry]_vars

\* ------------------------------------------------- the comparator on its own

S_alpha == <<"-", "a", "l", "p", "h", "a">>
S_beta == <<"-", "b", "e", "t", "a">>
S_rc == <<"-", "r", "c">>
S_120 == <<"1", ".", "2", ".", "0">>
S_1100 == <<"1", ".", "1", "0", ".", "0">>

\* The release versions the pre-release tiers are tried on.
Bases == {S_100, S_120}

\* The strings given to parse_version: releases and pre-releases of the bases,
\* a two-digit minor, a leading v, an upper-case tier, and strings outside
\* major.minor.patch[-prerelease].
VersionInputs ==
    {b \o suf : b \in Bases, suf \in {<<>>, S_alpha, S_beta, S_rc}}
    \cup {S_1100, S_v \o S_200, S_100 \o <<"-", "R", "C">>}
    \cup {<<"1", ".", "0">>, S_100 \o <<".", "1">>, S_100 \o <<"x">>,
          S_100 \o <<"-", "n", "i", "g", "h", "t", "l", "y">>, S_200dev,
          S_100 \o <<"-">>, S_unknown}

\* Three strings to parse and compare.
InitVersions ==
    /\ registry = <<>>
    /\ regok = TRUE
    /\ exe = [n \in ExeNames |-> IF n = S_cmam THEN Rel(S_cmam, S_v \o CMAM_VERSION) ELSE Absent]
    /\ tmp = [n \in ExeNames |-> Absent]
    /\ backups = <<>>
    /\ pc = "v_parse"
    /\ \E a, b, c \in VersionInputs :
          loc = [NoLoc EXCEPT !.cmd = "compare", !.version = a, !.cur = b, !.new = c]
    /\ outcome = NoOutcome
    /\ pre = NoPre
    /\ ops = 0
    /\ kills = 0
    /\ last = NoLast

\* parse_version on each string; the ValueError of one ends the comparison.
ParseVersions ==
    /\ pc = "v_parse"
    /\ LET parsed == <<parse_version(loc.version), parse_version(loc.cur),
                       parse_version(loc.new)>>
       IN  /\ loc' = [loc EXCEPT !.list = parsed]
           /\ IF \E i \in 1..3 : parsed[i] = Invalid
              THEN Finish("crash", "ValueError")
              ELSE pc' = "v_compare" /\ UNCHANGED outcome
    /\ UNCHANGED <<durable, pre, ops, kills, last>>

\* parse_version(x) < parse_version(y) for each pair of the three.
CompareVersions ==
    /\ pc = "v_compare"
    /\ loc' = [loc EXCEPT !.tally =
                 [i \in 1..3 |-> [j \in 1..3 |-> TupleLess(loc.list[i], loc.list[j])]]]
    /\ Finish("ok", "none")
    /\ UNCHANGED <<durable, pre, ops, kills, last>>

NextVersions == ParseVersions \/ CompareVersions

SpecVersions == InitVersions /\ [][NextVersions]_vars

\* -------------------------------------------- the backup chain on its own

\* The recorded versions the backups are made for.
BackupVersions == {S_100, S_120, S_1100, S_200}

\* Both apps installed at 1.0.0, no backup yet, get_backups about to be used.
InitBackups ==
    /\ registry = <<[name |-> S_app, version |-> S_100],
                    [name |-> S_appview, version |-> S_100]>>
    /\ regok = TRUE
    /\ exe = [n \in ExeNames |->
                IF n = S_cmam THEN Rel(S_cmam, S_v \o CMAM_VERSION)
                ELSE Rel(n, S_v \o S_100)]
    /\ tmp = [n \in ExeNames |-> Absent]
    /\ backups = <<>>
    /\ pc = "idle"
    /\ loc = NoLoc
    /\ outcome = NoOutcome
    /\ pre = NoPre
    /\ ops = 0
    /\ kills = 0
    /\ last = NoLast

\* create_backup(app_name, version) as update, update-all and rollback call it.
CreateBackup ==
    /\ pc = "idle"
    /\ \E a \in Apps, v \in BackupVersions : backups' = create_backup(backups, exe, a, v)
    /\ UNCHANGED <<registry, regok, exe, tmp, pc, loc, outcome, pre, ops, kills, last>>

\* A caller (list, info, rollback, uninstall) is about to enumerate the chain.
ListStart == \E a \in Apps : Begin("backups", a, <<>>, FALSE, "g_list")

\* get_backups(app_name): the sorted list, or the ValueError of the sort key.
ListBackups ==
    /\ pc = "g_list"
    /\ IF GetBackupsRaises(backups, loc.app)
       THEN End("crash", "ValueError")
       ELSE \E seq \in SortedBackups(backups, loc.app) :
              /\ loc' = [loc EXCEPT !.list = seq]
              /\ Finish("ok", "none")
    /\ UNCHANGED <<durable, pre, ops, kills, last>>

NextBackups == CreateBackup \/ ListStart \/ ListBackups \/ Return

SpecBackups == InitBackups /\ [][NextBackups]_vars

\* ------------------------------------- single-app commands next to another app

\* A third catalog name, one that goes on from "app_v" with a version.
S_appv200 == S_app \o S_uv \o S_200

\* app and app_v2.0.0 both installed at 1.0.0 and updated to 2.0.0 with the
\* backup kept, back at the prompt; two further commands may follow.
InitFrame ==
    /\ registry = <<[name |-> S_app, version |-> S_200],
                    [name |-> S_appv200, version |-> S_200]>>
    /\ regok = TRUE
    /\ exe = [n \in ExeNames \cup {S_appv200} |->
                IF n = S_cmam THEN Rel(S_cmam, S_v \o CMAM_VERSION)
                ELSE IF n = S_appview THEN Absent
                ELSE Rel(n, S_v \o S_200)]
    /\ tmp = [n \in ExeNames \cup {S_appv200} |-> Absent]
    /\ backups = WriteFile(WriteFile(<<>>,
                     BackupName(S_app, S_100), Rel(S_app, S_v \o S_100)),
                     BackupName(S_appv200, S_100), Rel(S_appv200, S_v \o S_100))
    /\ pc = "idle"
    /\ loc = NoLoc
    /\ outcome = NoOutcome
    /\ pre = NoPre
    /\ ops = 1
    /\ kills = 0
    /\ last = NoLast

\* The commands on one app, for app and app_view.
NextFrame ==
    \/ InstallStart \/ InstallCheck \/ InstallManifest \/ InstallRelease
    \/ InstallOpen \/ InstallStream \/ InstallVerify \/ InstallReplace
    \/ InstallSave
    \/ UpdateStart \/ UpdateCheck \/ UpdateManifest \/ UpdateRelease
    \/ UpdateBackup \/ UpdateOpen \/ UpdateStream \/ UpdateVerify
    \/ UpdateReplace \/ UpdateSave
    \/ UninstallStart \/ UninstallCheck \/ UninstallRemove \/ UninstallList
    \/ UninstallBackups \/ UninstallRegistry
    \/ RepairStart \/ RepairCheck \/ RepairRemove \/ RepairUnregister
    \/ RollbackStart \/ RollbackCheck \/ RollbackBackup \/ RollbackOpen
    \/ RollbackCopy \/ RollbackSave
    \/ Return \/ Kill

SpecFrame == InitFrame /\ [][NextFrame]_vars

\* ------------------------------------------------------------------ claims

\* The command has ended, or a turn of update-all has been counted.
AtEnd == pc = "a_next" \/ (pc = "done" /\ loc.cmd # "update_all")
\* How the command, or the counted turn of update-all, ended.
Failed(e) ==
    \/ pc = "done" /\ loc.cmd # "update_all" /\ outcome = [status |-> "fail", err |-> e]
    \/ /\ pc = "a_next"
       /\ loc.tally # <<>>
       /\ loc.tally[Len(loc.tally)] = [name |-> loc.app, ok |-> FALSE, err |-> e]
\* An artifact was fetched whole and its digest is not the expected checksum.
FetchedMismatch ==
    /\ loc.digest # NoChecksum
    /\ loc.checksum # NoChecksum
    /\ loc.digest # loc.checksum

\* C1: an artifact whose digest differs from the release's expected checksum is
\* never committed to the canonical path by install, update, update-all or
\* self-update: no step past the verification is reached with it, and the
\* operation ends as a failure (IntegrityError) with the canonical path holding
\* what it held before (or nothing, where repair had removed it).
C1_ChecksumGate ==
    /\ pc \in {"i_replace", "i_save", "u_replace", "u_save", "a_replace", "a_save",
               "s_move"} => ~FetchedMismatch
    /\ (AtEnd /\ FetchedMismatch) =>
          /\ Failed("IntegrityError")
          /\ exe[loc.app] \in {pre.exe[loc.app], Absent}

C1_Witness ==
    /\ pc = "done"
    /\ loc.cmd = "update"
    /\ FetchedMismatch
    /\ outcome.err = "IntegrityError"
    /\ exe[loc.app].k = "rel"

\* The failures of install up to and including the fetch and its verification.
FetchSideErrors ==
    {"CatalogUnavailable", "AppNotInCatalog", "ReleaseNotFound", "TransportError",
     "NoArtifactFound", "FetchFailed", "IntegrityError"}

\* C2: an install of an app with no Registry entry that fails at any step up to
\* and including the fetch and its verification leaves no Registry entry and no
\* canonical artifact for the app.
C2_InstallFailureLeavesNothing ==
    (/\ pc = "done"
     /\ loc.cmd = "install"
     /\ outcome.status = "fail"
     /\ outcome.err \in FetchSideErrors
     /\ ~RegHas(pre.registry, loc.app))
    => (~RegHas(registry, loc.app) /\ exe[loc.app] = Absent)

C2_Witness ==
    /\ pc = "done"
    /\ loc.cmd = "install"
    /\ outcome = [status |-> "fail", err |-> "FetchFailed"]
    /\ tmp[loc.app] = Partial
    /\ ~RegHas(registry, loc.app)
    /\ exe[loc.app] = Absent

\* The lifecycle commands of one app.
Lifecycle == {"install", "update", "rollback", "repair", "uninstall"}

\* C3: a lifecycle command that fails leaves the Registry and the canonical
\* artifact as they were before the call; in particular a repair whose
\* re-install fails leaves the app registered at its version, artifact in place.
C3_FailureChangesNothing ==
    (/\ pc = "done"
     /\ loc.cmd \in Lifecycle
     /\ outcome.status \in {"fail", "crash"})
    => (registry = pre.registry /\ exe = pre.exe)

\* C4: whenever no command is in the middle of a step sequence (it has ended,
\* or the process was killed between two steps), every canonical path is empty
\* or holds one complete artifact.
C4_CanonicalNeverPartial ==
    pc \in {"idle", "done"} => \A n \in ExeNames : exe[n] = Absent \/ Complete(exe[n])

\* The steps of each command that come before its commit of the new artifact
\* (os.replace in install, update and update-all; the copy in rollback); repair
\* commits with the os.replace of the install it calls.
BeforeCommit ==
    {"i_check", "i_manifest", "i_release", "i_open", "i_stream", "i_verify", "i_replace",
     "u_check", "u_manifest", "u_release", "u_backup", "u_open", "u_stream", "u_verify",
     "u_replace",
     "a_load", "a_manifest", "a_check", "a_confirm", "a_release", "a_backup", "a_open",
     "a_stream", "a_verify", "a_replace",
     "b_check", "b_backup", "b_open",
     "r_check", "r_remove", "r_unreg"}

\* C5: a process killed before the step that commits the new artifact leaves
\* the Registry and the canonical artifacts as they were when the command (the
\* turn, in update-all) started.
C5_KillBeforeCommitChangesNothing ==
    (/\ pc = "done"
     /\ outcome.status = "killed"
     /\ outcome.err \in BeforeCommit
     /\ loc.cmd \in {"install", "update", "update_all", "rollback", "repair"})
    => (registry = pre.registry /\ exe = pre.exe)

\* C6: install of an app that has a Registry entry fails with AlreadyInstalled,
\* whether or not the executable is there, and changes nothing.
C6_InstallRefusedWhenRegistered ==
    (/\ pc = "done"
     /\ loc.cmd = "install"
     /\ outcome.status # "killed"
     /\ RegHas(pre.registry, loc.app))
    => (/\ outcome = [status |-> "fail", err |-> "AlreadyInstalled"]
        /\ registry = pre.registry
        /\ exe = pre.exe
        /\ backups = pre.backups)

\* The tag without its leading 'v'.
WithoutLeadingV(tag) == IF tag # <<>> /\ tag[1] = "v" THEN Tail(tag) ELSE tag

\* C7: after a successful install of an app with no Registry entry the
\* canonical artifact is the fetched release asset and the Registry maps the
\* app to the release tag without its leading 'v'.
C7_InstallRecordsTagVersion ==
    (/\ pc = "done"
     /\ loc.cmd = "install"
     /\ outcome.status = "ok"
     /\ ~RegHas(pre.registry, loc.app))
    => (/\ Complete(exe[loc.app])
        /\ Digest(exe[loc.app]) = loc.digest
        /\ RegHas(registry, loc.app)
        /\ RegVer(registry, loc.app) = WithoutLeadingV(loc.tag))

\* C8: update fails with NotInstalled exactly when the Registry has no entry
\* for the app, whatever is at the canonical path, and then changes nothing.
C8_UpdateNotInstalledIffUnregistered ==
    (/\ pc = "done"
     /\ loc.cmd = "update"
     /\ outcome.status # "killed")
    => (/\ (outcome = [status |-> "fail", err |-> "NotInstalled"])
              <=> ~RegHas(pre.registry, loc.app)
        /\ outcome.err = "NotInstalled" =>
              (registry = pre.registry /\ exe = pre.exe /\ backups = pre.backups))

\* C9: an update whose resolved release version equals the installed version
\* ends in success and leaves the Registry, the canonical artifacts, the staging
\* files and the backups as they were.
C9_UpdateSameVersionNoOp ==
    (/\ pc = "done"
     /\ loc.cmd = "update"
     /\ outcome.status # "killed"
     /\ loc.new # <<>>
     /\ RegHas(pre.registry, loc.app)
     /\ loc.new = RegVer(pre.registry, loc.app))
    => (/\ outcome.status = "ok"
        /\ registry = pre.registry
        /\ exe = pre.exe
        /\ tmp = pre.tmp
        /\ backups = pre.backups)

C9_Witness ==
    /\ pc = "done"
    /\ loc.cmd = "update"
    /\ loc.version = S_200
    /\ loc.keep
    /\ loc.new = S_200
    /\ RegVer(pre.registry, loc.app) = S_200
    /\ outcome.status = "ok"
    /\ backups = <<>>

\* C10: an update that fails in the fetch or on the checksum leaves the
\* canonical artifact and the Registry as they were, and the Registry is
\* written (the step after os.replace) only with the fetched artifact already
\* at the canonical path.
C10_UpdateFetchFailureKeepsOld ==
    /\ (/\ pc = "done"
        /\ loc.cmd = "update"
        /\ outcome.status = "fail"
        /\ outcome.err \in {"FetchFailed", "IntegrityError"})
       => (exe = pre.exe /\ registry = pre.registry)
    /\ pc = "u_save"
       => (/\ Complete(exe[loc.app])
           /\ Digest(exe[loc.app]) = loc.digest
           /\ registry = pre.registry)

C10_Witness ==
    /\ pc = "done"
    /\ loc.cmd = "update"
    /\ outcome = [status |-> "fail", err |-> "FetchFailed"]
    /\ tmp[loc.app] = Partial
    /\ exe[loc.app].k = "rel"
    /\ RegVer(registry, loc.app) = S_100

C12_UpdateAllNeverAborts ==
    (/\ pc = "done"
     /\ loc.cmd = "update_all"
     /\ outcome.status # "killed"
     /\ outcome.err \notin {"NothingInstalled", "CatalogUnavailable"})
    => (/\ outcome.status = "ok"
        /\ outcome.err \in {"AllUpToDate", "Cancelled", "Summary"}
        /\ outcome.err = "Summary" => Len(loc.tally) = Len(loc.list))

\* The number of tally lines with the given result.
Count(tally, ok) == Cardinality({i \in DOMAIN tally : tally[i].ok = ok})

\* The release lookup of app b failed during the update-all run that has ended:
\* in the version check (no answer, or the HTTP error that ended the run) or
\* in b's update turn.
ReleaseFetchFailed(b) ==
    \/ b \in loc.unfetched
    \/ /\ outcome = [status |-> "crash", err |-> "HTTPError"]
       /\ loc.idx \in DOMAIN registry
       /\ registry[loc.idx].name = b
    \/ \E i \in DOMAIN loc.tally :
         loc.tally[i] = [name |-> b, ok |-> FALSE, err |-> "TransportError"]

\* C13: update-all over two registered apps, the first with a newer release
\* and nothing failing in its own update, the second with a failed release
\* lookup: the first app is updated (new artifact, new registry version) and
\* the tally is one success and one failure.
C13_BatchIsolation ==
    (/\ pc = "done"
     /\ loc.cmd = "update_all"
     /\ outcome.status # "killed"
     /\ outcome.err # "Cancelled"
     /\ Len(registry) = 2
     /\ loc.list # <<>>
     /\ loc.list[1].name = registry[1].name
     /\ ~\E i \in DOMAIN loc.tally :
           loc.tally[i].name = registry[1].name /\ ~loc.tally[i].ok
     /\ ReleaseFetchFailed(registry[2].name))
    => (/\ registry[1].version = loc.list[1].latest
        /\ Complete(exe[registry[1].name])
        /\ Count(loc.tally, TRUE) = 1
        /\ Count(loc.tally, FALSE) = 1)

\* The backup files that differ from the start of the command (of the turn, in
\* update-all).
ChangedBackups ==
    {f \in DOMAIN backups \cup DOMAIN pre.backups :
        \/ f \notin DOMAIN pre.backups
        \/ f \notin DOMAIN backups
        \/ backups[f] # pre.backups[f]}

\* C14: during update-all, the executable, the registry version or a backup of
\* an app differs from the start of the turn only for the app of the turn, and
\* only when the latest release version found for it is strictly greater,
\* under parse_version's order, than the version it was registered with.
C14_UpdateAllOnlyNewer ==
    (loc.cmd = "update_all" /\ outcome.status # "killed")
    => /\ \A n \in Apps :
            (exe[n] # pre.exe[n] \/ RegVer(registry, n) # RegVer(pre.registry, n))
            => n = loc.app
       /\ RegNames(registry) = RegNames(pre.registry)
       /\ (exe # pre.exe \/ registry # pre.registry \/ ChangedBackups # {})
            => /\ loc.idx \in DOMAIN loc.list
               /\ LET e == loc.list[loc.idx] IN
                  /\ e.name = loc.app
                  /\ e.current = RegVer(pre.registry, loc.app)
                  /\ parse_version(e.latest) # Invalid
                  /\ parse_version(e.current) # Invalid
                  /\ TupleLess(parse_version(e.current), parse_version(e.latest))
                  /\ ChangedBackups \subseteq {BackupName(loc.app, e.current)}

C14_Witness ==
    /\ pc = "done"
    /\ loc.cmd = "update_all"
    /\ outcome = [status |-> "ok", err |-> "Summary"]
    /\ Len(registry) = 2
    /\ registry[1].version = S_200
    /\ pre.registry[2].version = S_100
    /\ registry[2].version = S_200
    /\ Len(loc.list) = 1
    /\ exe[registry[2].name] # pre.exe[registry[2].name]

\* C15: a successful rollback to version v leaves a backup named for the
\* version registered before the call holding the executable from before the
\* call, the executable equal to what the backup of v held before the call, and
\* the registry at v; the backup is written first (the executable and the
\* registry still as before), the executable second, the registry last.
C15_RollbackEffects ==
    LET f == BackupName(loc.app, RegVer(pre.registry, loc.app))
        g == BackupName(loc.app, loc.version)
        BackedUp == pre.exe[loc.app] # Absent
                    => (f \in DOMAIN backups /\ backups[f] = pre.exe[loc.app])
        Restored == g \in DOMAIN pre.backups /\ exe[loc.app] = pre.backups[g]
    IN  /\ (loc.cmd = "rollback" /\ pc = "b_open")
           => (BackedUp /\ exe = pre.exe /\ registry = pre.registry)
        /\ (loc.cmd = "rollback" /\ pc = "b_save")
           => (BackedUp /\ Restored /\ registry = pre.registry)
        /\ (loc.cmd = "rollback" /\ pc = "done" /\ outcome = [status |-> "ok", err |-> "none"])
           => (BackedUp /\ Restored /\ RegVer(registry, loc.app) = loc.version)

\* The state Spec reaches by "install app -v 1.0.0" and then "update app -v
\* 2.0.0" with keep_backup (the state of C11_Witness, back at the prompt).  The
\* command counter starts at one, which leaves room for two further commands.
InitUpdated ==
    /\ registry = <<[name |-> S_app, version |-> S_200]>>
    /\ regok = TRUE
    /\ exe = [n \in ExeNames |->
                IF n = S_cmam THEN Rel(S_cmam, S_v \o CMAM_VERSION)
                ELSE IF n = S_app THEN Rel(S_app, S_v \o S_200)
                ELSE Absent]
    /\ tmp = [n \in ExeNames |-> Absent]
    /\ backups = WriteFile(<<>>, BackupName(S_app, S_100), Rel(S_app, S_v \o S_100))
    /\ pc = "idle"
    /\ loc = NoLoc
    /\ outcome = NoOutcome
    /\ pre = NoPre
    /\ ops = 1
    /\ kills = 0
    /\ last = NoLast

SpecUpdated == InitUpdated /\ [][Next]_vars

\* C16: a rollback that ends in success straight after a successful rollback
\* of the same app, whose executable was in place, and asks for the version
\* that was registered before the first, leaves the executable equal to the one from before the first
\* rollback and the registry at that version.
C16_RollbackReversible ==
    (/\ pc = "done"
     /\ loc.cmd = "rollback"
     /\ outcome = [status |-> "ok", err |-> "none"]
     /\ last.cmd = "rollback"
     /\ last.app = loc.app
     /\ last.exe # Absent
     /\ last.from = loc.version)
    => (/\ exe[loc.app] = last.exe
        /\ RegVer(registry, loc.app) = last.from)

C16_Witness ==
    /\ pc = "done"
    /\ loc.cmd = "rollback"
    /\ outcome = [status |-> "ok", err |-> "none"]
    /\ last.cmd = "rollback"
    /\ last.app = loc.app
    /\ last.version = S_100
    /\ last.from = S_200
    /\ loc.version = S_200
    /\ pre.exe[loc.app] = Rel(loc.app, S_v \o S_100)
    /\ exe[loc.app] = Rel(loc.app, S_v \o S_200)

\* The versions a backup can be named for: the ones the registry can hold.
KeyVersions == {S_100, S_200, S_200dev, InstallVersion(S_v \o S_200dev), S_unknown}

\* The backups of app a in the directory: the files named for a and a version.
BackupsOf(dir, a) == {f \in DOMAIN dir : \E v \in KeyVersions : f = BackupName(a, v)}

\* C17: for a registered app, rollback fails with NoBackupsAvailable when there
\* is no backup of the app, lists the backups and ends in success when no
\* version is given, and fails with BackupNotFound when the version given has
\* no backup; in the three cases registry, executables and backups are
\* unchanged.
C17_RollbackRefusals ==
    (/\ pc = "done"
     /\ loc.cmd = "rollback"
     /\ outcome.status # "killed"
     /\ RegHas(pre.registry, loc.app))
    => LET mine == BackupsOf(pre.backups, loc.app)
           Unchanged == registry = pre.registry /\ exe = pre.exe /\ backups = pre.backups
       IN  /\ mine = {}
              => (outcome = [status |-> "fail", err |-> "NoBackupsAvailable"] /\ Unchanged)
           /\ (mine # {} /\ loc.version = <<>>)
              => (outcome = [status |-> "ok", err |-> "Listed"] /\ Unchanged)
           /\ (mine # {} /\ loc.version # <<>> /\ BackupName(loc.app, loc.version) \notin mine)
              => (outcome = [status |-> "fail", err |-> "BackupNotFound"] /\ Unchanged)

\* C18: a repair that ends in success leaves the registry at the version it
\* held before the repair and the executable the complete artifact fetched
\* from the release tagged with that version.
C18_RepairKeepsVersion ==
    (/\ pc = "done"
     /\ loc.cmd = "repair"
     /\ outcome.status = "ok")
    => (/\ RegHas(registry, loc.app)
        /\ RegVer(registry, loc.app) = RegVer(pre.registry, loc.app)
        /\ loc.tag = S_v \o RegVer(pre.registry, loc.app)
        /\ Complete(exe[loc.app])
        /\ Digest(exe[loc.app]) = loc.digest)

\* C19: uninstall fails with NotInstalled exactly when the app has no registry
\* entry; with an entry, whether or not the executable is there, it succeeds
\* and leaves neither the entry nor the executable.
C19_UninstallIffRegistered ==
    (/\ pc = "done"
     /\ loc.cmd = "uninstall"
     /\ outcome.status # "killed")
    => (/\ (outcome = [status |-> "fail", err |-> "NotInstalled"])
              <=> ~RegHas(pre.registry, loc.app)
        /\ RegHas(pre.registry, loc.app)
              => (/\ outcome.status = "ok"
                  /\ ~RegHas(registry, loc.app)
                  /\ exe[loc.app] = Absent))

\* C20: after a successful uninstall without keep_backups no backup of the app
\* is left; with keep_backups the backup directory is as it was.
C20_UninstallBackups ==
    (/\ pc = "done"
     /\ loc.cmd = "uninstall"
     /\ outcome = [status |-> "ok", err |-> "none"])
    => IF loc.keep
       THEN backups = pre.backups
       ELSE BackupsOf(backups, loc.app) = {}

\* C21: the order on parsed versions is irreflexive and transitive and relates
\* any two different tuples; it is numeric in each component (1.2.0 < 1.10.0);
\* and for each release x.y.z, x.y.z-alpha < x.y.z-beta < x.y.z-rc < x.y.z.
C21_VersionOrder ==
    (pc = "done" /\ loc.cmd = "compare" /\ outcome.status = "ok")
    => LET less == loc.tally
           p == loc.list
       IN  /\ \A i \in 1..3 : ~less[i][i]
           /\ \A i, j, k \in 1..3 : (less[i][j] /\ less[j][k]) => less[i][k]
           /\ \A i, j \in 1..3 : p[i] # p[j] => (less[i][j] \/ less[j][i])
           /\ \A i, j \in 1..3 : ~(less[i][j] /\ less[j][i])
           /\ (loc.version = S_120 /\ loc.cur = S_1100) => less[1][2]
           /\ \A b \in Bases :
                /\ (loc.version = b \o S_alpha /\ loc.cur = b \o S_beta /\ loc.new = b \o S_rc)
                   => (less[1][2] /\ less[2][3])
                /\ (loc.version = b \o S_rc /\ loc.cur = b) => less[1][2]

C21_Witness ==
    /\ pc = "done"
    /\ loc.cmd = "compare"
    /\ outcome.status = "ok"
    /\ loc.version = S_120
    /\ loc.cur = S_1100
    /\ loc.new = S_100 \o S_rc
    /\ loc.tally[1][2]
    /\ loc.tally[3][1]

\* The string is major.minor.patch, digits only, with at most a suffix -alpha,
\* -beta or -rc (in any case) and at most a leading v, and nothing else.
WellFormed(str) ==
    LET s == IF str # <<>> /\ str[1] = "v" THEN Tail(str) ELSE str
        n1 == RunLen(s, 1, Digits)
        n2 == RunLen(s, n1 + 2, Digits)
        n3 == RunLen(s, n1 + n2 + 3, Digits)
        e3 == n1 + n2 + n3 + 2
    IN  /\ n1 > 0 /\ n2 > 0 /\ n3 > 0
        /\ s[n1 + 1] = "."
        /\ s[n1 + n2 + 2] = "."
        /\ \/ e3 = Len(s)
           \/ /\ e3 < Len(s)
              /\ s[e3 + 1] = "-"
              /\ LowerStr(SubSeq(s, e3 + 2, Len(s))) \in {Tail(S_alpha), Tail(S_beta), Tail(S_rc)}

\* C22: parse_version fails on every string that is not major.minor.patch with
\* an optional -alpha, -beta or -rc, and no parsed version carries a rank
\* outside those of alpha, beta, rc and the release.
C22_ParseRejectsMalformed ==
    (loc.cmd = "compare" /\ pc # "v_parse")
    => LET given == <<loc.version, loc.cur, loc.new>> IN
       \A i \in 1..3 :
          /\ ~WellFormed(given[i]) => loc.list[i] = Invalid
          /\ loc.list[i] # Invalid => loc.list[i][4] \in 0..3


\* C23 (violated by the code): a release lookup that fails ends the command
\* with a "release not found" report exactly when the server answered 404; a
\* lookup that failed for any other reason (another HTTP status, no
\* connection) is reported as a transport error and never as "not found".
\* self-update looks the release up through fetch_release_info, which answers
\* None both for a 404 and for a connection failure, so both get one report.
C23_LookupErrorsDistinguished ==
    (pc = "done" /\ loc.resp # "none")
        => /\ outcome.status \in {"fail", "crash"}
           /\ (outcome.err = "ReleaseNotFound") <=> (loc.resp = "404")


\* C24: when install, update, a turn of update-all or self-update fails on a
\* checksum mismatch, the staging file of that operation no longer exists at
\* the moment the failure is reported (the command has ended, or the turn of
\* update-all has been counted as failed).
C24_MismatchDeletesStaging ==
    (FetchedMismatch /\ Failed("IntegrityError")) => tmp[loc.app] = Absent

C24_Witness ==
    /\ FetchedMismatch
    /\ Failed("IntegrityError")
    /\ loc.cmd \in {"update", "update_all", "self_update"}
    /\ tmp[loc.app] = Absent


\* C25: when the selected release asset carries no expected checksum, install
\* and update accept the artifact once it has been fetched whole: no step but
\* the comparison, the replacement and the Registry write follows, and the
\* command ends as a success with the fetched artifact at the canonical path
\* and the Registry entry written exactly as after a verified download.
C25_NoChecksumAccepted ==
    (/\ loc.cmd \in {"install", "update"}
     /\ loc.checksum = NoChecksum
     /\ loc.digest # NoChecksum)
    => /\ pc \in {"i_verify", "i_replace", "i_save",
                  "u_verify", "u_replace", "u_save", "done"}
       /\ pc = "done" =>
            /\ outcome = [status |-> "ok", err |-> "none"]
            /\ tmp[loc.app] = Absent
            /\ Digest(exe[loc.app]) = loc.digest
            /\ RegHas(registry, loc.app)
            /\ RegVer(registry, loc.app) =
                 IF loc.cmd = "install" THEN InstallVersion(loc.tag) ELSE loc.new

C25_Witness ==
    /\ pc = "done"
    /\ loc.cmd = "update"
    /\ loc.checksum = NoChecksum
    /\ loc.digest # NoChecksum
    /\ outcome.status = "ok"
    /\ Digest(exe[loc.app]) = loc.digest
    /\ exe[loc.app] # pre.exe[loc.app]


\* C26 (violated by the code): when clean is run with the backups option and
\* the user declines the confirmation, every backup that existed before the
\* call still exists, unchanged, when clean has ended, whatever the cache and
\* orphans options are. With the cache option the backups folder, which lies
\* inside the cache folder, is removed by the cache pass before the question
\* is asked.
C26_DeclinedCleanKeepsBackups ==
    (/\ pc = "done"
     /\ loc.cmd = "clean"
     /\ "backups" \in loc.opts
     /\ loc.answer = "no")
    => \A f \in DOMAIN pre.backups :
          f \in DOMAIN backups /\ backups[f] = pre.backups[f]

\* C27 (violated by the code): after clean with orphan removal no artifact is
\* left at the canonical path of an app without a Registry entry (the tool's
\* own executable excepted), and the canonical artifact of every app with a
\* Registry entry is what it was before. An orphan whose removal fails is
\* reported and left in place.
C27_CleanRemovesOrphansOnly ==
    (/\ pc = "done"
     /\ loc.cmd = "clean"
     /\ "orphans" \in loc.opts
     /\ outcome.status = "ok")
    => \A a \in Apps :
          IF RegHas(registry, a) THEN exe[a] = pre.exe[a] ELSE exe[a] = Absent

\* C28 (violated by the code): after any run of clean no staging file is left
\* next to a canonical path. clean goes through the cache folder and the
\* ".exe" files of the scripts folder only; a staging file "<app>.exe.tmp" of
\* the scripts folder is in neither.
C28_CleanRemovesStaging ==
    (pc = "done" /\ loc.cmd = "clean" /\ outcome.status = "ok")
        => \A n \in ExeNames : tmp[n] = Absent


\* C29 (violated by the code): a run of import over a readable file ends with
\* every entry of the file processed and counted: installed + skipped + failed
\* is the number of apps in the file, also when the install of one of them
\* fails. install fails with typer.Exit, which "except SystemExit" does not
\* catch, so the first failing install ends the whole run.
C29_ImportTalliesEveryApp ==
    (/\ pc = "done"
     /\ loc.cmd = "import"
     /\ outcome.status \in {"ok", "fail"}
     /\ outcome.err \notin {"FileNotFound", "InvalidJSON"})
    => /\ loc.idx = Len(loc.list)
       /\ Len(loc.tally) = Len(loc.list)


\* The class validate gave to the i-th Registry entry agrees with the files:
\* invalid when the artifact is missing or is not the release asset of the
\* recorded version, valid only when it is that asset, unknown only for an
\* artifact that exists.
ClassAgrees(i) ==
    LET a == registry[i].name
        released == Rel(a, S_v \o registry[i].version)
        class == loc.tally[i].err
    IN  /\ loc.tally[i].name = a
        /\ class \in {"valid", "invalid", "unknown"}
        /\ exe[a] = Absent => class = "invalid"
        /\ class = "valid" => exe[a] = released
        /\ class = "invalid" => exe[a] # released

\* C30 (violated by the code): when validate has fetched the catalog it ends
\* with every Registry entry in exactly one of the classes valid, invalid and
\* unknown, the class agreeing with the artifact on disk, and the three
\* counters summing to the number of Registry entries. A release lookup
\* answered with an HTTP error status other than 404 is re-raised by
\* fetch_release_info and ends validate before the remaining entries are
\* classified.
C30_ValidateClassifiesAll ==
    (/\ pc = "done"
     /\ loc.cmd = "validate"
     /\ outcome.status \in {"ok", "crash"})
    => /\ Len(loc.tally) = Len(registry)
       /\ \A i \in 1..Len(loc.tally) : ClassAgrees(i)


\* C31 (violated by the code): a registry file that does not parse is reported
\* by doctor as an issue, and no command reads it as an empty Registry and
\* writes it over: the entries of the other apps that the file held when the
\* command started are in it when the command has ended.
C31_MalformedRegistryReported ==
    /\ (pc = "done" /\ loc.cmd = "doctor" /\ ~regok)
          => Issue("corrupted", <<>>) \in loc.issues
    /\ (pc = "done" /\ loc.cmd = "install")
          => \A i \in 1..Len(pre.registry) :
                pre.registry[i].name # loc.app
                   => \E j \in 1..Len(registry) : registry[j] = pre.registry[i]


\* C32 (violated by the code): uninstall removes the Registry entry last. At
\* every point of an uninstall of a registered app the entry is still there,
\* unless the command has ended as a success, and then the executable and
\* every backup the command was to remove are gone. A backup whose removal
\* fails is passed over and the entry is removed all the same.
C32_UninstallRegistryLast ==
    (loc.cmd = "uninstall" /\ RegHas(pre.registry, loc.app))
    => \/ RegHas(registry, loc.app)
       \/ /\ pc = "done"
          /\ outcome = [status |-> "ok", err |-> "none"]
          /\ exe[loc.app] = Absent
          /\ loc.keep \/ BackupFiles(pre.backups, loc.app) \cap DOMAIN backups = {}


\* The backup files that create_backup made for app a.
CreatedFor(dir, a) == {f \in DOMAIN dir : \E v \in BackupVersions : f = BackupName(a, v)}

\* C33 (violated by the code): enumerating the backup chain of an app gives
\* exactly the backups made for that app, each once, strictly from newest to
\* oldest in the comparator's order (1.10.0 before 1.2.0). For "app" the
\* prefix test also takes the files of "app_view", whose version part does
\* not parse, and the enumeration fails.
C33_BackupChainSorted ==
    (pc = "done" /\ loc.cmd = "backups")
    => /\ outcome = [status |-> "ok", err |-> "none"]
       /\ {loc.list[i] : i \in DOMAIN loc.list} = CreatedFor(backups, loc.app)
       /\ \A i, j \in DOMAIN loc.list :
             i < j => TupleLess(parse_version(BackupVersion(loc.list[j], loc.app)),
                                parse_version(BackupVersion(loc.list[i], loc.app)))


\* The state Spec reaches by "install app_view -v 1.0.0" and then "update
\* app_view -v 2.0.0" with keep_backup, back at the prompt; two further
\* commands may follow.
InitViewUpdated ==
    /\ registry = <<[name |-> S_appview, version |-> S_200]>>
    /\ regok = TRUE
    /\ exe = [n \in ExeNames |->
                IF n = S_cmam THEN Rel(S_cmam, S_v \o CMAM_VERSION)
                ELSE IF n = S_appview THEN Rel(S_appview, S_v \o S_200)
                ELSE Absent]
    /\ tmp = [n \in ExeNames |-> Absent]
    /\ backups = WriteFile(<<>>, BackupName(S_appview, S_100), Rel(S_appview, S_v \o S_100))
    /\ pc = "idle"
    /\ loc = NoLoc
    /\ outcome = NoOutcome
    /\ pre = NoPre
    /\ ops = 1
    /\ kills = 0
    /\ last = NoLast

SpecViewUpdated == InitViewUpdated /\ [][Next]_vars

\* C34 (violated by the code): with no external termination, whenever a
\* command has ended and the next may start, an app has a Registry entry
\* exactly when an artifact is at its canonical path. uninstall removes the
\* executable first and then enumerates the backups; when get_backups raises
\* the command ends there, the entry left without its executable.
C34_EntryIffArtifact ==
    (pc = "idle" /\ kills = 0)
        => \A a \in Apps : RegHas(registry, a) <=> exe[a] # Absent


\* What the installation holds for app b: its Registry entry, its executable
\* and the backups made for it.
Holding(reg, x, dir, b) ==
    [entry |-> IF RegHas(reg, b) THEN RegVer(reg, b) ELSE <<"-">>,
     exe |-> x[b],
     backups |-> {<<f, dir[f]>> : f \in BackupsOf(dir, b)}]

\* C35 (violated by the code): at every point of install, update, rollback,
\* repair and uninstall of app A, the Registry entry, the executable and the
\* backups of every other app B are what they were when the command started,
\* also when B's name goes on from A's. uninstall of "app" takes the backup
\* of "app_v2.0.0" for one of its own and removes it.
C35_OtherAppsUntouched ==
    (loc.cmd \in Lifecycle)
    => \A b \in DOMAIN exe \ {loc.app, S_cmam} :
          Holding(registry, exe, backups, b)
             = Holding(pre.registry, pre.exe, pre.backups, b)


\* C36 (violated by the code): when a turn of update-all has been counted as a
\* success, the Registry version of the app is the version of the release
\* whose asset the turn fetched and committed. The turn records the version
\* found by the check pass and downloads from a second lookup of the latest
\* release, which may be another release by then.
C36_UpdateAllRecordsFetched ==
    (/\ pc = "a_next"
     /\ loc.cmd = "update_all"
     /\ loc.tally # <<>>
     /\ loc.tally[Len(loc.tally)] = [name |-> loc.app, ok |-> TRUE, err |-> "none"])
    => /\ exe[loc.app] \in {Rel(loc.app, loc.tag), Corrupt}
       /\ RegVer(registry, loc.app) = LStripV(loc.tag)


\* C37 (violated by the code): every backup the tool has made is named for a
\* version that parse_version accepts, so that the sort key of get_backups
\* does not raise on any backup of the app it is called for. update of an app
\* whose executable exists and whose Registry entry is missing makes the
\* backup of version "unknown".
C37_BackupKeysParse ==
    \A a \in ExeNames : \A f \in DOMAIN backups :
        (\E v \in KeyVersions \cup {CMAM_VERSION} : f = BackupName(a, v))
            => parse_version(BackupVersion(f, a)) # Invalid


\* update-all has printed its summary.
Summarised ==
    /\ pc = "done"
    /\ loc.cmd = "update_all"
    /\ outcome = [status |-> "ok", err |-> "Summary"]

=============================================================================
